---- MODULE Spec2Model ----
(***************************************************************************)
(* A model of stateflow/statefields.py: the StateFlowField, the Creator    *)
(* descriptor installed on the model class, and the StateWidget.           *)
(*                                                                         *)
(* Python values are records [kind, v]:                                    *)
(*   kind "none"   None                                                    *)
(*   kind "str"    the string v                                            *)
(*   kind "cls"    the State class named v (a subclass of DjangoState)     *)
(*   kind "inst"   an instance of the State class named v                  *)
(*   kind "type"   the class named v, which is no subclass of DjangoState  *)
(*   kind "raise"  the exception v, propagating out of a call              *)
(*   kind "absent" no entry under the field's name in obj.__dict__         *)
(*   kind "self"   the Creator object itself                               *)
(***************************************************************************)
EXTENDS Naturals, Sequences, FiniteSets, TLC

VARIABLES
    flow_kwarg,   \* StateFlowField._flow_kwarg
    flow,         \* StateFlowField.flow
    flow_path,    \* StateFlowField.flow_path
    dict,         \* obj.__dict__[field.name], for each record obj
    db,           \* the scalar last handed to storage for the field's column
    last          \* the last call made, its arguments and what it returned

vars == <<flow_kwarg, flow, flow_path, dict, db, last>>

\* Number of record instances of the model class.
NumRecords == 2

Records == 1..NumRecords

None == [kind |-> "none", v |-> ""]
Str(s) == [kind |-> "str", v |-> s]
Cls(n) == [kind |-> "cls", v |-> n]
Inst(n) == [kind |-> "inst", v |-> n]
Type(n) == [kind |-> "type", v |-> n]
Raise(e) == [kind |-> "raise", v |-> e]
Absent == [kind |-> "absent", v |-> ""]
Self == [kind |-> "self", v |-> ""]

(***************************************************************************)
(* stateclass.py (Flow, DjangoState) is imported by statefields.py; only   *)
(* its use is in the source. Two flows are declared: FlowA with the states *)
(* Draft("draft","Draft") and Published("published","Published"), and      *)
(* FlowB with BDraft("draft","Draft B") and Archived("archived",           *)
(* "Archived"). Both live in the module "m".                               *)
(***************************************************************************)
FlowNames == {"FlowA", "FlowB"}

FlowStates(f) ==
    IF f = "FlowA" THEN <<"Draft", "Published">> ELSE <<"BDraft", "Archived">>

StateNames == {"Draft", "Published", "BDraft", "Archived"}

\* DjangoState.get_value(): the storable token of a State class.
get_value(n) ==
    CASE n = "Draft" -> "draft"
      [] n = "Published" -> "published"
      [] n = "BDraft" -> "draft"
      [] OTHER -> "archived"

StateLabel(n) ==
    CASE n = "Draft" -> "Draft"
      [] n = "Published" -> "Published"
      [] n = "BDraft" -> "Draft B"
      [] OTHER -> "Archived"

\* Flow.state_choices(): the (token, label) pairs in declaration order.
state_choices(f) ==
    [i \in 1..Len(FlowStates(f)) |->
        [value |-> Str(get_value(FlowStates(f)[i])),
         selected |-> FALSE,
         label |-> StateLabel(FlowStates(f)[i])]]

\* Flow.get_state(value): the State whose token is value, LookupError if none.
get_state(f, value) ==
    LET hits == {i \in 1..Len(FlowStates(f)) :
                    value = Str(get_value(FlowStates(f)[i]))}
    IN  IF hits = {} THEN Raise("LookupError")
        ELSE Cls(FlowStates(f)[CHOOSE i \in hits : TRUE])

\* isinstance(value, type) and issubclass(value, DjangoState)
IsStateClass(value) == value.kind = "cls"

\* isinstance(v, DjangoState): a class is not an instance of itself.
IsStateInstance(value) == value.kind = "inst"

\* str(value) / force_unicode(value)
str(value) ==
    CASE value.kind = "str" -> value.v
      [] value.kind = "none" -> "None"
      [] value.kind = "inst" -> "<" \o value.v \o " object>"
      [] OTHER -> "<class '" \o value.v \o "'>"

(***************************************************************************)
(* Flow references: a Flow class, or a locator string (its characters).    *)
(***************************************************************************)
FlowClass(f) == [kind |-> "flowcls", name |-> f, path |-> <<>>]
Locator(p) == [kind |-> "str", name |-> "", path |-> p]
NoFlow == [kind |-> "none", name |-> "", path |-> <<>>]

\* The characters of a flow's name, and the attributes of module "m".
FlowChars(f) ==
    IF f = "FlowA" THEN <<"F", "l", "o", "w", "A">>
    ELSE <<"F", "l", "o", "w", "B">>

\* flow_path.rindex('.'): the highest index holding '.', 0 for ValueError.
rindex(p) ==
    LET dots == {i \in 1..Len(p) : p[i] = "."}
    IN  IF dots = {} THEN 0 ELSE CHOOSE i \in dots : \A j \in dots : j <= i

\* load_flow(flow_path): import the module, fetch the attribute.
load_flow(p) ==
    LET dot == rindex(p)
        mod_name == SubSeq(p, 1, dot - 1)
        cls_name == SubSeq(p, dot + 1, Len(p))
    IN  IF dot = 0 THEN Raise("ValueError")
        ELSE IF mod_name # <<"m">> THEN Raise("ImportError")
        ELSE IF \E f \in FlowNames : FlowChars(f) = cls_name
             THEN [kind |-> "flowcls",
                   v |-> CHOOSE f \in FlowNames : FlowChars(f) = cls_name]
        ELSE Raise("AttributeError")

\* resolve_flow(flow_name): the flow and its canonical name, or the exception.
resolve_flow(flow_name) ==
    LET flow_is_cls == flow_name.kind = "flowcls"
    IN  IF flow_is_cls
        THEN [flow |-> [kind |-> "flowcls", v |-> flow_name.name],
              flow_path |-> [kind |-> "repr", name |-> flow_name.name, path |-> <<>>]]
        ELSE [flow |-> load_flow(flow_name.path), flow_path |-> flow_name]

\* StateFlowField.__init__: the exception raised, or the field's attributes.
StateFlowField_init(kwarg) ==
    IF kwarg.kind = "none"
    THEN [raised |-> TRUE, flow_kwarg |-> kwarg, flow |-> "", flow_path |-> kwarg]
    ELSE LET r == resolve_flow(kwarg)
         IN  IF r.flow.kind = "raise"
             THEN [raised |-> TRUE, flow_kwarg |-> kwarg, flow |-> "",
                   flow_path |-> kwarg]
             ELSE [raised |-> FALSE, flow_kwarg |-> kwarg, flow |-> r.flow.v,
                   flow_path |-> r.flow_path]

\* The flow arguments a field is constructed with.
FlowKwargs ==
    {NoFlow,
     FlowClass("FlowA"), FlowClass("FlowB"),
     Locator(<<"m", ".">> \o FlowChars("FlowA")),
     Locator(<<"m", ".">> \o FlowChars("FlowB")),
     Locator(<<"m", ".", "X">>), Locator(<<"m">>)}

(***************************************************************************)
(* StateFlowField conversions.                                             *)
(***************************************************************************)
StrToken(value) == Str(str(value))

\* get_prep_value without the State branch: every value but None is str()ed.
get_prep_value_str(value) ==
    IF value.kind = "none" THEN None ELSE StrToken(value)

get_prep_value(value) ==
    IF value.kind = "none" THEN None
    ELSE IF IsStateClass(value) THEN Str(get_value(value.v))
    ELSE StrToken(value)

\* to_python without the State branch: every value is looked up in the Flow.
to_python_call_lookup(f, value) ==
    [ret |-> get_state(f, value), lookups |-> 1]

\* to_python swallowing the lookup error and returning None.
to_python_call_default(f, value) ==
    IF IsStateClass(value) THEN [ret |-> value, lookups |-> 0]
    ELSE IF get_state(f, value).kind = "raise" THEN [ret |-> None, lookups |-> 1]
    ELSE [ret |-> get_state(f, value), lookups |-> 1]

\* to_python with the number of Flow.get_state calls it makes.
to_python_call(f, value) ==
    IF IsStateClass(value) THEN [ret |-> value, lookups |-> 0]
    ELSE [ret |-> get_state(f, value), lookups |-> 1]

to_python(f, value) == to_python_call(f, value).ret

from_db_value(f, value) == to_python(f, value)

\* formfield with the blank choice after the Flow's choices.
formfield_blank_last(f) ==
    state_choices(f)
        \o <<[value |-> None, selected |-> FALSE, label |-> "----"]>>

\* The label of the blank choice.
BlankLabel == "----"

formfield(f) ==
    <<[value |-> None, selected |-> FALSE, label |-> BlankLabel]>>
        \o state_choices(f)

(***************************************************************************)
(* StateWidget.render_options. An option is rendered as the record of its  *)
(* value, whether it carries selected="selected", and its label.           *)
(***************************************************************************)
render_option(option, selected_choices) ==
    LET option_value == str(option.value)
    IN  [value |-> Str(option_value),
         selected |-> option_value \in selected_choices,
         label |-> option.label]

render_options(self_choices, choices, selected_choices) ==
    LET states == SelectSeq(selected_choices, IsStateInstance)
        normalized == {get_value(states[i].v) : i \in 1..Len(states)}
        all == self_choices \o choices
    IN  [i \in 1..Len(all) |-> render_option(all[i], normalized)]

(***************************************************************************)
(* The values callers pass in.                                             *)
(***************************************************************************)
Tokens == {"draft", "published", "archived", "bogus"}

Values ==
    {None, Type("int"), Inst("Draft"), Inst("Archived")}
        \cup {Str(t) : t \in Tokens}
        \cup {Cls(n) : n \in StateNames}

Call(op, obj, arg, ret, lookups, out) ==
    [op |-> op, obj |-> obj, arg |-> arg, ret |-> ret, lookups |-> lookups,
     out |-> out]

Init ==
    /\ \E kwarg \in FlowKwargs :
          LET field == StateFlowField_init(kwarg)
          IN  /\ ~field.raised
              /\ flow_kwarg = field.flow_kwarg
              /\ flow = field.flow
              /\ flow_path = field.flow_path
    /\ dict = [obj \in Records |-> Absent]
    /\ db = Absent
    /\ last = Call("init", 0, None, None, 0, <<>>)

\* __set__ storing the raw value, uncoerced.
Creator_set_lazy(obj, value) ==
    /\ dict' = [dict EXCEPT ![obj] = value]
    /\ last' = Call("set", obj, value, None, 0, <<>>)
    /\ UNCHANGED <<flow_kwarg, flow, flow_path, db>>

\* __set__ storing on the class: one slot shared by every record.
Creator_set_shared(obj, value) ==
    LET c == to_python_call(flow, value)
    IN  /\ dict' = IF c.ret.kind = "raise" THEN dict
                   ELSE [o \in Records |-> c.ret]
        /\ last' = Call("set", obj, value, c.ret, c.lookups, <<>>)
        /\ UNCHANGED <<flow_kwarg, flow, flow_path, db>>

\* __set__ clearing the slot before it coerces.
Creator_set_clear_first(obj, value) ==
    LET c == to_python_call(flow, value)
    IN  /\ dict' = IF c.ret.kind = "raise" THEN [dict EXCEPT ![obj] = None]
                   ELSE [dict EXCEPT ![obj] = c.ret]
        /\ last' = Call("set", obj, value, c.ret, c.lookups, <<>>)
        /\ UNCHANGED <<flow_kwarg, flow, flow_path, db>>

\* Creator.__set__(obj, value)
Creator_set(obj, value) ==
    LET c == to_python_call(flow, value)
    IN  /\ dict' = IF c.ret.kind = "raise" THEN dict
                   ELSE [dict EXCEPT ![obj] = c.ret]
        /\ last' = Call("set", obj, value, c.ret, c.lookups, <<>>)
        /\ UNCHANGED <<flow_kwarg, flow, flow_path, db>>

\* Creator.__get__(obj): the stored value, KeyError when nothing was stored.
Creator_get(obj) ==
    /\ last' = Call("get", obj, None,
                    IF dict[obj] = Absent THEN Raise("KeyError") ELSE dict[obj],
                    0, <<>>)
    /\ UNCHANGED <<flow_kwarg, flow, flow_path, dict, db>>

\* Creator.__get__(None, type): the Creator itself.
Creator_get_type ==
    /\ last' = Call("get", 0, None, Self, 0, <<>>)
    /\ UNCHANGED <<flow_kwarg, flow, flow_path, dict, db>>

\* get_prep_value(value) called on any value.
GetPrepValue(value) ==
    /\ last' = Call("get_prep_value", 0, value, get_prep_value(value), 0, <<>>)
    /\ UNCHANGED <<flow_kwarg, flow, flow_path, dict, db>>

\* from_db_value(value, ...) called on any value.
FromDbValue(value) ==
    LET c == to_python_call(flow, value)
    IN  /\ last' = Call("from_db_value", 0, value, from_db_value(flow, value),
                        c.lookups, <<>>)
        /\ UNCHANGED <<flow_kwarg, flow, flow_path, dict, db>>

\* Persisting obj: the field's value goes through get_prep_value to storage.
Save(obj) ==
    /\ dict[obj] # Absent
    /\ db' = get_prep_value(dict[obj])
    /\ last' = Call("save", obj, dict[obj], db', 0, <<>>)
    /\ UNCHANGED <<flow_kwarg, flow, flow_path, dict>>

\* Loading obj: the stored scalar goes through from_db_value and is assigned.
Load(obj) ==
    /\ db # Absent
    /\ LET loaded == from_db_value(flow, db)
           c == to_python_call(flow, loaded)
       IN  IF loaded.kind = "raise"
           THEN /\ dict' = dict
                /\ last' = Call("load", obj, db, loaded, 1, <<>>)
           ELSE /\ dict' = [dict EXCEPT ![obj] = c.ret]
                /\ last' = Call("load", obj, db, c.ret, 1 + c.lookups, <<>>)
    /\ UNCHANGED <<flow_kwarg, flow, flow_path, db>>

\* StateFlowField.formfield()
Formfield ==
    /\ last' = Call("formfield", 0, None, None, 0, formfield(flow))
    /\ UNCHANGED <<flow_kwarg, flow, flow_path, dict, db>>

\* The field's widget rendering its options with obj's value as the current one.
Render(obj) ==
    /\ dict[obj] # Absent
    /\ last' = Call("render", obj, dict[obj], None, 0,
                    render_options(formfield(flow), <<>>, <<dict[obj]>>))
    /\ UNCHANGED <<flow_kwarg, flow, flow_path, dict, db>>

\* StateWidget.render_options(choices, [value]) for any current value.
RenderValue(value) ==
    /\ last' = Call("render", 0, value, None, 0,
                    render_options(formfield(flow), <<>>, <<value>>))
    /\ UNCHANGED <<flow_kwarg, flow, flow_path, dict, db>>

Next ==
    \/ \E obj \in Records, value \in Values : Creator_set(obj, value)
    \/ \E obj \in Records : Creator_get(obj)
    \/ Creator_get_type
    \/ \E value \in Values : GetPrepValue(value)
    \/ \E value \in Values : FromDbValue(value)
    \/ \E obj \in Records : Save(obj)
    \/ \E obj \in Records : Load(obj)
    \/ Formfield
    \/ \E obj \in Records : Render(obj)
    \/ \E value \in Values : RenderValue(value)

Spec == Init /\ [][Next]_vars

(***************************************************************************)
(* Vocabulary of the properties.                                           *)
(***************************************************************************)
\* The State classes declared in flow f, and their tokens.
FlowStateSet(f) == {Cls(FlowStates(f)[i]) : i \in 1..Len(FlowStates(f))}
FlowTokens(f) == {state_choices(f)[i].value : i \in 1..Len(state_choices(f))}

\* Scalars that are no declared token of flow f.
UnknownScalars(f) == ({None} \cup {Str(t) : t \in Tokens}) \ FlowTokens(f)

\* Values that are neither a token of flow f nor a State.
NeitherTokenNorState(f) ==
    {v \in Values : v.kind \notin {"cls", "inst"} /\ v \notin FlowTokens(f)}

\* The options of a rendering that carry selected="selected".
SelectedOptions(out) == {i \in 1..Len(out) : out[i].selected}

(***************************************************************************)
(* C1. After any assignments through Creator.__set__, each record's slot   *)
(* holds None or a State of the field's own Flow: never a raw token, never *)
(* a State of another Flow.                                                *)
(***************************************************************************)
C1_SlotInvariant ==
    \A obj \in Records :
        dict[obj] # Absent =>
            dict[obj] = None \/ dict[obj] \in FlowStateSet(flow)

(***************************************************************************)
(* C2 as stated. Assigning a value that is neither a token of the Flow nor *)
(* a State does not fail at assignment time: the assignment completes.     *)
(***************************************************************************)
C2_LazyValidation ==
    (last.op = "set" /\ last.arg \in NeitherTokenNorState(flow))
        => last.ret.kind # "raise"

(***************************************************************************)
(* C2 amended. Assigning a value that is neither a token of the Flow nor a *)
(* State fails at assignment time with the Flow's lookup error, after one  *)
(* Flow lookup.                                                            *)
(***************************************************************************)
C2_EagerValidation ==
    (last.op = "set" /\ last.arg \in NeitherTokenNorState(flow))
        => (last.ret = Raise("LookupError") /\ last.lookups = 1)

C2_Witness ==
    /\ last.op = "set"
    /\ last.arg = Type("int")
    /\ last.ret = Raise("LookupError")

(***************************************************************************)
(* C3. Round trip: for every State s of the field's Flow, to_python and    *)
(* from_db_value of get_prep_value(s) are s; loading what was persisted    *)
(* from s leaves the record holding s.                                     *)
(***************************************************************************)
C3_RoundTrip ==
    /\ \A s \in FlowStateSet(flow) :
          /\ to_python(flow, get_prep_value(s)) = s
          /\ from_db_value(flow, get_prep_value(s)) = s
    /\ \A obj \in Records : \A s \in FlowStateSet(flow) :
          (last.op = "load" /\ last.obj = obj /\ last.arg = get_prep_value(s))
              => (last.ret = s /\ dict[obj] = s)

C3_Witness ==
    /\ last.op = "load"
    /\ last.ret \in FlowStateSet(flow)
    /\ dict[last.obj] = last.ret
    /\ db = get_prep_value(last.ret)

(***************************************************************************)
(* C4. Idempotence: to_python of to_python(t) is to_python(t) for every    *)
(* token t of the Flow; to_python of a State is that State, with no Flow   *)
(* lookup; every stored slot value is left as it is by assigning it again. *)
(***************************************************************************)
C4_Idempotence ==
    /\ \A t \in FlowTokens(flow) :
          to_python(flow, to_python(flow, t)) = to_python(flow, t)
    /\ \A n \in StateNames :
          to_python_call(flow, Cls(n)) = [ret |-> Cls(n), lookups |-> 0]
    /\ \A obj \in Records :
          dict[obj] # Absent => to_python(flow, dict[obj]) = dict[obj]
    /\ (last.op = "set" /\ last.arg.kind = "cls")
          => (last.ret = last.arg /\ last.lookups = 0
              /\ dict[last.obj] = last.arg)

C4_Witness ==
    /\ last.op = "set"
    /\ last.arg \in FlowStateSet(flow)
    /\ last.lookups = 0
    /\ dict[last.obj] = last.arg

(***************************************************************************)
(* C5. Unknown token: for every scalar that is no declared token of the    *)
(* Flow, to_python and from_db_value raise the Flow's lookup error, and an *)
(* assignment or load of it ends with that error, not with a value.        *)
(***************************************************************************)
C5_UnknownTokenFails ==
    /\ \A v \in UnknownScalars(flow) :
          /\ to_python(flow, v) = Raise("LookupError")
          /\ from_db_value(flow, v) = Raise("LookupError")
    /\ (last.op \in {"set", "load", "from_db_value"}
            /\ last.arg \in UnknownScalars(flow))
          => last.ret = Raise("LookupError")

C5_Witness ==
    /\ last.op = "load"
    /\ last.arg \in UnknownScalars(flow)
    /\ last.ret = Raise("LookupError")

(***************************************************************************)
(* C6. Accessor isolation: an assignment to record A, failing or not,      *)
(* leaves the slot of every other record B and the field's Flow unchanged. *)
(***************************************************************************)
C6_Isolation ==
    [][\A a \in Records : \A b \in Records \ {a} :
          (last'.op = "set" /\ last'.obj = a)
              => (dict'[b] = dict[b] /\ flow' = flow
                  /\ flow_kwarg' = flow_kwarg /\ flow_path' = flow_path)]_vars

C6_Witness ==
    /\ last.op = "set"
    /\ last.ret.kind # "raise"
    /\ \E b \in Records \ {last.obj} :
          dict[b] # Absent /\ dict[b] # dict[last.obj]

(***************************************************************************)
(* C7 as stated. formfield's choices are (None, "- unset -") followed by   *)
(* Flow.state_choices() in declaration order.                              *)
(***************************************************************************)
\* The label with its two long dashes written as "-".
UnsetLabel == "- unset -"

C7_ChoicesUnsetLabel ==
    last.op = "formfield" =>
        last.out = <<[value |-> None, selected |-> FALSE, label |-> UnsetLabel]>>
                       \o state_choices(flow)

(***************************************************************************)
(* C7 amended. formfield's choices are (None, "----") followed by          *)
(* Flow.state_choices() in declaration order; for the Flow with Draft and  *)
(* Published: (None,"----"), ("draft","Draft"), ("published","Published"). *)
(***************************************************************************)
C7_ChoicesDashLabel ==
    last.op = "formfield" =>
        /\ Len(last.out) = 1 + Len(state_choices(flow))
        /\ last.out[1] = [value |-> None, selected |-> FALSE, label |-> "----"]
        /\ \A i \in 1..Len(state_choices(flow)) :
              last.out[i + 1] = state_choices(flow)[i]
        /\ flow = "FlowA" =>
              last.out =
                <<[value |-> None, selected |-> FALSE, label |-> "----"],
                  [value |-> Str("draft"), selected |-> FALSE, label |-> "Draft"],
                  [value |-> Str("published"), selected |-> FALSE,
                   label |-> "Published"]>>

C7_Witness == last.op = "formfield" /\ flow = "FlowA" /\ Len(last.out) = 3

(***************************************************************************)
(* C8. Storage boundary: the scalar get_prep_value hands to storage for a  *)
(* record's slot is None or one of the tokens of the field's Flow.         *)
(***************************************************************************)
C8_StoredToken ==
    last.op = "save" => (db = None \/ db \in FlowTokens(flow))

(***************************************************************************)
(* C9. Selected value: rendering with a State stored in a record's slot as *)
(* the current value marks exactly the option whose value is that State's  *)
(* token; a current value that is no State marks no option.                *)
(***************************************************************************)
C9_SelectedByToken ==
    last.op = "render" =>
        /\ (last.obj \in Records /\ last.arg \in FlowStateSet(flow))
              => SelectedOptions(last.out) =
                    {i \in 1..Len(last.out) :
                        last.out[i].value = get_prep_value(last.arg)}
        /\ last.arg.kind \notin {"cls", "inst"}
              => SelectedOptions(last.out) = {}

(***************************************************************************)
(* C10. A failed assignment is atomic: when to_python raises inside        *)
(* Creator.__set__, every slot keeps the value it held, and a get returns  *)
(* what is stored (KeyError when nothing ever was).                        *)
(***************************************************************************)
C10_FailedSetAtomic ==
    [][/\ (last'.op = "set" /\ last'.ret.kind = "raise") => dict' = dict
       /\ \A obj \in Records :
             (last'.op = "get" /\ last'.obj = obj) =>
                 /\ dict' = dict
                 /\ last'.ret = IF dict[obj] = Absent THEN Raise("KeyError")
                                ELSE dict[obj]]_vars

C10_Witness ==
    /\ last.op = "set"
    /\ last.ret.kind = "raise"
    /\ dict[last.obj] \in FlowStateSet(flow)

====
